---- MODULE Spec2Model ----
(***************************************************************************)
(* A model of src/main.py, the menu-driven Jira command-line client.       *)
(*                                                                         *)
(* Strings whose contents matter (issue keys, labels, configuration text,  *)
(* dates, durations) are sequences of one-character strings.  The tracker  *)
(* (the jira client library) is the environment: each call either returns  *)
(* or raises, and what it returns follows a small workflow.                *)
(***************************************************************************)
EXTENDS Integers, Sequences, FiniteSets, TLC

VARIABLES
    pc,             \* position of the process in the __main__ script
    ret,            \* where transition_in_loop returns to
    secrets,        \* the loaded configuration (fields the menu loop reads)
    key,            \* issue_key of the running transition_in_loop
    transitions,    \* local `transitions` of transition_in_loop
    next_status,    \* local `next_status` of transition_in_loop
    task_details,   \* `task_details` of the create_issue branch
    creates,        \* the create_issue calls the branch has sent in this run
    account,        \* `account` of the create_issue branch
    task,           \* key of the issue the create_issue branch created
    status,         \* tracker: status of every existing issue
    memory,         \* prompt_key.memory
    epic_memory,    \* get_epic_list.memory (<<>> while the attribute is unset)
    ev,             \* tracker calls and prompts made by the last step, in order
    offered,        \* tracker: what the last transitions() call returned
    fresh,          \* a transitions() call has happened since the last apply
    applied,        \* this walk has applied at least one transition
    failed,         \* transition_issue failed and no prompt was shown since
    \* prompt_key called on its own
    pk_project,     \* its parameter project_key
    pk_text,        \* the text the user entered (its user_prompt)
    pk_key,         \* the key it returned (<< >> before the first call)
    pk_default,     \* the default the last prompt_key offered, where it is recorded
    \* format_working_time called on its own
    seconds,        \* its parameter: << >> for None, <<n>> for the number n
    formatted,      \* the text it returned (<< >> before the call)
    \* prompt_labels called as get_user_input calls it
    labels_conf,    \* secrets["labels_conf"]["labels"]: three comma-separated texts
    marked,         \* what the user marked in each checkbox shown
    labels,         \* what prompt_labels returned, and the prompts it showed
    lab_done,       \* prompt_labels has returned
    \* check_for_existing_secrets over runs of the program
    secret_file,    \* secret_config.json: whether it exists, and its text
    sec_pc,         \* "start" of a run, or "returned" from the check
    stored,         \* the configuration store_secrets was last given
    loaded,         \* what check_for_existing_secrets returned
    had_file,       \* the file existed when the last check began
    prompted,       \* the last check ran prompt_for_secrets
    \* prompt_due_date
    now_utc,        \* the clock: the UTC date and hour of the call
    due_input,      \* what the user typed
    due_date,       \* what prompt_due_date returned
    due_done,       \* prompt_due_date has returned
    \* search_for_issues
    sq_in,          \* its arguments, and what the tracker will answer
    sq_calls,       \* the search_issues calls sent to the tracker
    sq_ret,         \* what search_for_issues returned
    sq_done,        \* search_for_issues has ended
    \* update_jira_labels
    ul_labels,      \* the labels of the issue on the tracker
    ul_to_add,      \* labels_to_add: None or a list
    ul_log,         \* the calls made: the labels before and after each, the
                    \* update it sent and what it returned
    \* get_time_tracking_info and display_time_bar
    tb_pc,          \* "fetch", then "display", then "done"
    tb_tracking,    \* issue.fields.timetracking.__dict__ on the tracker
    tb_info,        \* time_info: None or the three times
    tb_out,         \* what display_time_bar printed: the bars, and whether it
                    \* divided
    \* the values the create_issue branch collects and sends
    cv_pc,          \* position in the branch ("off" while it is not followed)
    cv_type,        \* secrets["jira_type"]
    cv_task,        \* task_details: the values get_user_input returned
    cv_subtask,     \* subtask_details: the values get_subtask_input returned
    cv_sent         \* the issue_data of every create_issue call sent

mainVars == <<pc, ret, secrets, key, transitions, next_status, task_details,
              creates, account, task, status, memory, epic_memory, ev, offered, fresh,
              applied, failed>>

\* the main variables other than prompt_key.memory
menuVars == <<pc, ret, secrets, key, transitions, next_status, task_details,
              creates, account, task, status, epic_memory, ev, offered, fresh, applied,
              failed>>

keyVars == <<pk_project, pk_text, pk_key, pk_default>>

\* the variables of the functions that are also modelled on their own
fmtVars == <<seconds, formatted>>

labVars == <<labels_conf, marked, labels, lab_done>>

secVars == <<secret_file, sec_pc, stored, loaded, had_file, prompted>>

dueVars == <<now_utc, due_input, due_date, due_done>>

searchVars == <<sq_in, sq_calls, sq_ret, sq_done>>

\* the functions specified after prompt_due_date
addVars == <<ul_labels, ul_to_add, ul_log>>

barVars == <<tb_pc, tb_tracking, tb_info, tb_out>>

valVars == <<cv_pc, cv_type, cv_task, cv_subtask, cv_sent>>

moreVars == <<searchVars, addVars, barVars, valVars>>

\* the program and the functions specified up to prompt_due_date
firstVars == <<mainVars, keyVars, fmtVars, labVars, secVars, dueVars>>

pureVars == <<keyVars, fmtVars, labVars, secVars, dueVars, moreVars>>

vars == <<mainVars, pureVars>>

-----------------------------------------------------------------------------
(* Bounds of the model. *)

\* the tracker holds at most this many issues (creation is refused beyond it)
MaxIssues == 2

-----------------------------------------------------------------------------
(* Strings. *)

\* the characters Python's str.isdigit accepts: the ASCII digits and the
\* other Unicode digit characters, of which SUP2 (superscript two) is one
DigitChars == {"0", "1", "2", "9", "SUP2"}

\* str.isdigit: at least one character, and every character a digit
IsDigit(s) == Len(s) > 0 /\ \A i \in 1..Len(s) : s[i] \in DigitChars

\* secrets["project_key"]
project_key == <<"S", "P", "F">>

\* what prompt_key returns for what the user typed
PromptKeyNoHyphen(pk, user_prompt) ==
    IF IsDigit(user_prompt) THEN pk \o user_prompt ELSE user_prompt

PromptKeyResult(pk, user_prompt) ==
    IF IsDigit(user_prompt) THEN pk \o <<"-">> \o user_prompt ELSE user_prompt

-----------------------------------------------------------------------------
(* The tracker. *)

\* how a tracker call ends: it returns, raises JIRAError, or raises another
\* exception (a connection error, a timeout)
Outcomes == {"ok", "jira_error", "error"}

\* the same, where the caller treats every exception alike
OkOrRaise == {"ok", "error"}

Statuses == {"Open", "In Progress", "Done", "Closed"}

\* the allowed transitions of an issue, a function of its status alone
Workflow(s) ==
    CASE s = "Open" ->
           << [id |-> "11", name |-> "Start", to |-> "In Progress"],
              [id |-> "12", name |-> "Close", to |-> "Closed"] >>
      [] s = "In Progress" ->
           << [id |-> "21", name |-> "Stop", to |-> "Open"],
              [id |-> "22", name |-> "Resolve", to |-> "Done"],
              [id |-> "23", name |-> "Resolve", to |-> "Closed"] >>
      [] s = "Done" ->
           << [id |-> "31", name |-> "Reopen", to |-> "Open"] >>
      [] OTHER -> << >>

\* the keys the tracker gives to issues, in creation order
IssueKey(n) ==
    project_key \o <<"-">> \o << <<"1", "2", "3", "4", "5", "6", "7", "8", "9">>[n] >>

\* one recorded tracker call or prompt
Ev(op, k, arg, out) == [op |-> op, key |-> k, arg |-> arg, out |-> out]


-----------------------------------------------------------------------------
(* transition_in_loop, one action per interaction with the tracker or user. *)

WalkPcs == {"walk_fetch", "walk_status", "walk_prompt", "walk_apply"}

\* fetch_and_display_transitions keeps the name and the id of each transition
Choices(ts) == [i \in 1..Len(ts) |-> [name |-> ts[i].name, id |-> ts[i].id]]

Names(ts) == [i \in 1..Len(ts) |-> ts[i].name]

\* next(t for t in transitions if t["name"] == next_status)
SelectedTransition(ts, name) ==
    ts[CHOOSE i \in 1..Len(ts) :
          ts[i].name = name /\ \A j \in 1..(i-1) : ts[j].name # name]

\* the tracker's transition_issue: the target status of transition `id`
Target(s, id) ==
    LET ts == Workflow(s)
    IN  ts[CHOOSE i \in 1..Len(ts) : ts[i].id = id].to

ValidId(s, id) == \E i \in 1..Len(Workflow(s)) : Workflow(s)[i].id = id

\* the call transition_in_loop(jira_client, k) from a place that goes on at r
EnterWalk(k, r) ==
    /\ pc' = "walk_fetch"
    /\ ret' = r
    /\ key' = k
    /\ transitions' = << >>
    /\ next_status' = ""
    /\ offered' = << >>
    /\ fresh' = FALSE
    /\ applied' = FALSE
    /\ failed' = FALSE

\* the walk is not running: its locals and the walk's history are gone
NoWalk ==
    /\ ret' = "menu"
    /\ key' = << >>
    /\ transitions' = << >>
    /\ next_status' = ""
    /\ offered' = << >>
    /\ fresh' = FALSE
    /\ applied' = FALSE
    /\ failed' = FALSE

\* lines 360-366: fetch the transitions; an empty list ends the loop.  The
\* call is in no try block: an exception leaves transition_in_loop and the
\* menu loop, and the process ends with a traceback.
WalkFetchStale ==
    /\ pc = "walk_fetch"
    /\ UNCHANGED pureVars
    /\ \E out \in OkOrRaise :
         /\ out = "ok" => key \in DOMAIN status
         /\ ev' = << Ev("transitions", key, << >>, out) >>
         /\ IF out # "ok"
            THEN /\ pc' = "crashed"
                 /\ UNCHANGED <<transitions, offered, fresh>>
            ELSE /\ offered' = Workflow(status[key])
                 /\ fresh' = TRUE
                 /\ transitions' =
                       IF transitions # << >> THEN transitions ELSE Choices(Workflow(status[key]))
                 /\ pc' = IF transitions' = << >> THEN ret ELSE "walk_status"
    /\ UNCHANGED <<ret, secrets, key, next_status, task_details, creates, account, task,
                   status, memory, epic_memory, applied, failed>>

WalkFetchNoBreak ==
    /\ pc = "walk_fetch"
    /\ UNCHANGED pureVars
    /\ \E out \in OkOrRaise :
         /\ out = "ok" => key \in DOMAIN status
         /\ ev' = << Ev("transitions", key, << >>, out) >>
         /\ IF out # "ok"
            THEN /\ pc' = "crashed"
                 /\ UNCHANGED <<transitions, offered, fresh>>
            ELSE /\ offered' = Workflow(status[key])
                 /\ fresh' = TRUE
                 /\ transitions' = Choices(Workflow(status[key]))
                 /\ pc' = "walk_status"
    /\ UNCHANGED <<ret, secrets, key, next_status, task_details, creates, account, task,
                   status, memory, epic_memory, applied, failed>>

WalkFetch ==
    /\ pc = "walk_fetch"
    /\ UNCHANGED pureVars
    /\ \E out \in OkOrRaise :
         /\ out = "ok" => key \in DOMAIN status
         /\ ev' = << Ev("transitions", key, << >>, out) >>
         /\ IF out # "ok"
            THEN /\ pc' = "crashed"
                 /\ UNCHANGED <<transitions, offered, fresh>>
            ELSE /\ offered' = Workflow(status[key])
                 /\ fresh' = TRUE
                 /\ transitions' = Choices(Workflow(status[key]))
                 /\ pc' = IF transitions' = << >> THEN ret ELSE "walk_status"
    /\ UNCHANGED <<ret, secrets, key, next_status, task_details, creates, account, task,
                   status, memory, epic_memory, applied, failed>>

\* line 368, display_issue_status: its tracker call is in a try block that
\* catches everything and prints, so the walk goes on to the prompt
WalkStatus ==
    /\ pc = "walk_status"
    /\ UNCHANGED pureVars
    /\ \E out \in OkOrRaise :
         /\ out = "ok" => key \in DOMAIN status
         /\ ev' = << Ev("issue", key, << >>, out) >>
    /\ pc' = "walk_prompt"
    /\ UNCHANGED <<ret, secrets, key, transitions, next_status, task_details, creates,
                   account, task, status, memory, epic_memory, offered, fresh, applied, failed>>

\* lines 371-380: the user picks a transition name or Exit
WalkPrompt ==
    /\ pc = "walk_prompt"
    /\ UNCHANGED pureVars
    /\ \E choice \in {transitions[i].name : i \in 1..Len(transitions)} \cup {"Exit"} :
         /\ ev' = << Ev("select", key, Names(transitions) \o <<"Exit">>, choice) >>
         /\ IF choice = "Exit"
            THEN pc' = ret /\ UNCHANGED next_status
            ELSE pc' = "walk_apply" /\ next_status' = choice
    /\ failed' = FALSE
    /\ UNCHANGED <<ret, secrets, key, transitions, task_details, creates, account, task,
                   status, memory, epic_memory, offered, fresh, applied>>

\* lines 382-390: apply the selected transition; a failure is printed and
\* the loop goes round again
WalkApplyBreak ==
    /\ pc = "walk_apply"
    /\ UNCHANGED pureVars
    /\ LET id == SelectedTransition(transitions, next_status).id
       IN  \E out \in OkOrRaise :
             /\ out = "ok" => (key \in DOMAIN status /\ ValidId(status[key], id))
             /\ ev' = << Ev("transition_issue", key, id, out) >>
             /\ status' = IF out = "ok"
                          THEN [status EXCEPT ![key] = Target(status[key], id)]
                          ELSE status
             /\ failed' = (out # "ok")
             /\ pc' = IF out = "ok" THEN "walk_fetch" ELSE ret
    /\ applied' = (applied \/ status' # status)
    /\ fresh' = FALSE
    /\ UNCHANGED <<ret, secrets, key, transitions, next_status, task_details, creates,
                   account, task, memory, epic_memory, offered>>

WalkApply ==
    /\ pc = "walk_apply"
    /\ UNCHANGED pureVars
    /\ LET id == SelectedTransition(transitions, next_status).id
       IN  \E out \in OkOrRaise :
             /\ out = "ok" => (key \in DOMAIN status /\ ValidId(status[key], id))
             /\ ev' = << Ev("transition_issue", key, id, out) >>
             /\ status' = IF out = "ok"
                          THEN [status EXCEPT ![key] = Target(status[key], id)]
                          ELSE status
             /\ failed' = (out # "ok")
    /\ applied' = (applied \/ status' # status)
    /\ fresh' = FALSE
    /\ pc' = "walk_fetch"
    /\ UNCHANGED <<ret, secrets, key, transitions, next_status, task_details, creates,
                   account, task, memory, epic_memory, offered>>

-----------------------------------------------------------------------------
(* The menu loop of __main__: one action per branch, split where a branch   *)
(* waits for the tracker a second time.  A branch's variables are never     *)
(* read before the branch assigns them again, so they are cleared between   *)
(* branches.                                                                *)

\* what the user types at prompt_key: the bare number of the first issue, or
\* the qualified key of the second
KeyInputs ==
    { <<"1">>, project_key \o <<"-">> \o <<"2">> }

\* what the user types at prompt_date: nothing, a date in the YYYY/MM/DD
\* shape strptime accepts, or something else
DateInputs == {"", "2025/01/31", "31-01-2025"}

\* convert_to_jira_date raises ValueError unless strptime accepts the text
StrptimeAccepts(date) == date = "2025/01/31"

NoTask == [issue_type |-> "", parent |-> << >>]

NoAccount == "unset"

\* the branch's own variables while no create_issue branch runs
NoCreate ==
    /\ task_details' = NoTask
    /\ creates' = << >>
    /\ account' = NoAccount
    /\ task' = << >>

\* an uncaught exception in a branch ends the process
Crash(out) == IF out = "ok" THEN "menu" ELSE "crashed"

\* a tracker call on issue k returns only when k exists
Answers(k, out) == out = "ok" => k \in DOMAIN status

\* lines 1035-1054: search_for_issues has no try block
ListIssues ==
    /\ pc = "menu"
    /\ UNCHANGED pureVars
    /\ \E filter \in {"Open", "Active", "Done"}, out \in OkOrRaise :
         /\ ev' = << Ev("search_issues", << >>, "list", out) >>
         /\ pc' = Crash(out)
    /\ NoWalk /\ NoCreate
    /\ UNCHANGED <<secrets, status, memory, epic_memory>>

\* lines 1055-1063
SearchIssue ==
    /\ pc = "menu"
    /\ UNCHANGED pureVars
    /\ \E user_prompt \in KeyInputs, out \in OkOrRaise :
         LET k == PromptKeyResult(project_key, user_prompt)
         IN  /\ memory' = k
             /\ ev' = << Ev("search_issues", << >>, "key", out) >>
             /\ pc' = Crash(out)
    /\ NoWalk /\ NoCreate
    /\ UNCHANGED <<secrets, status, epic_memory>>

\* lines 1064-1067
Transition ==
    /\ pc = "menu"
    /\ UNCHANGED pureVars
    /\ \E user_prompt \in KeyInputs :
         LET k == PromptKeyResult(project_key, user_prompt)
         IN  /\ memory' = k
             /\ ev' = << >>
             /\ EnterWalk(k, "menu")
    /\ NoCreate
    /\ UNCHANGED <<secrets, status, epic_memory>>

\* lines 1068-1073 with the result of add_comment_to_issue not looked at
CommentUnchecked ==
    /\ pc = "menu"
    /\ UNCHANGED pureVars
    /\ \E user_prompt \in KeyInputs, out \in OkOrRaise :
         LET k == PromptKeyResult(project_key, user_prompt)
         IN  /\ Answers(k, out)
             /\ memory' = k
             /\ ev' = << Ev("add_comment", << >>, << >>, out) >>
             /\ pc' = "comment_offer"
             /\ NoWalk /\ NoCreate
    /\ UNCHANGED <<secrets, status, epic_memory>>

\* lines 1068-1073 and add_comment_to_issue, which catches everything
Comment ==
    /\ pc = "menu"
    /\ UNCHANGED pureVars
    /\ \E user_prompt \in KeyInputs, out \in OkOrRaise :
         LET k == PromptKeyResult(project_key, user_prompt)
         IN  /\ Answers(k, out)
             /\ memory' = k
             /\ ev' = << Ev("add_comment", << >>, << >>, out) >>
             /\ pc' = IF out = "ok" THEN "comment_offer" ELSE "menu"
             /\ NoWalk /\ NoCreate
    /\ UNCHANGED <<secrets, status, epic_memory>>

\* lines 1074-1093: the offer to log work after a comment
CommentOffer ==
    /\ pc = "comment_offer"
    /\ UNCHANGED pureVars
    /\ \E will_log_work \in {"Yes", "No"}, date \in DateInputs, out \in OkOrRaise :
         /\ Answers(memory, out)
         /\ IF will_log_work = "No"
            THEN /\ ev' = << Ev("select", << >>, <<"Yes", "No">>, "No") >>
                 /\ pc' = "menu"
            ELSE IF date # "" /\ ~StrptimeAccepts(date)
            THEN /\ ev' = << Ev("select", << >>, <<"Yes", "No">>, "Yes"),
                             Ev("convert_to_jira_date", << >>, "date", "error") >>
                 /\ pc' = "crashed"
            ELSE /\ ev' = << Ev("select", << >>, <<"Yes", "No">>, "Yes"),
                             Ev("add_worklog", << >>, "date", out) >>
                 /\ pc' = "menu"
    /\ NoWalk /\ NoCreate
    /\ UNCHANGED <<secrets, status, memory, epic_memory>>

\* lines 1094-1097 and get_recent_comments, which catches everything
GetComment ==
    /\ pc = "menu"
    /\ UNCHANGED pureVars
    /\ \E user_prompt \in KeyInputs, out \in OkOrRaise :
         LET k == PromptKeyResult(project_key, user_prompt)
         IN  /\ Answers(k, out)
             /\ memory' = k
             /\ ev' = << Ev("issue", << >>, "comments", out) >>
    /\ pc' = "menu"
    /\ NoWalk /\ NoCreate
    /\ UNCHANGED <<secrets, status, epic_memory>>

\* lines 1098-1111: convert_to_jira_date is called outside any try block;
\* log_work_with_date catches everything
LogWork ==
    /\ pc = "menu"
    /\ UNCHANGED pureVars
    /\ \E user_prompt \in KeyInputs, date \in DateInputs, out \in OkOrRaise :
         LET k == PromptKeyResult(project_key, user_prompt)
         IN  /\ Answers(k, out)
             /\ memory' = k
             /\ IF date # "" /\ ~StrptimeAccepts(date)
                THEN /\ ev' = <<         Ev("convert_to_jira_date", << >>, "date", "error") >>
                     /\ pc' = "crashed"
                ELSE /\ ev' = <<         Ev("add_worklog", << >>, "date", out) >>
                     /\ pc' = "menu"
    /\ NoWalk /\ NoCreate
    /\ UNCHANGED <<secrets, status, epic_memory>>

\* lines 1214-1217: get_time_tracking_info catches JIRAError and
\* AttributeError only
GetTime ==
    /\ pc = "menu"
    /\ UNCHANGED pureVars
    /\ \E user_prompt \in KeyInputs, out \in Outcomes :
         LET k == PromptKeyResult(project_key, user_prompt)
         IN  /\ Answers(k, out)
             /\ memory' = k
             /\ ev' = << Ev("issue", << >>, "timetracking", out) >>
             /\ pc' = IF out = "error" THEN "crashed" ELSE "menu"
    /\ NoWalk /\ NoCreate
    /\ UNCHANGED <<secrets, status, epic_memory>>

\* lines 1218-1227 and update_jira_labels, which catches everything
UpdateLabels ==
    /\ pc = "menu"
    /\ UNCHANGED pureVars
    /\ \E user_prompt \in KeyInputs, out \in OkOrRaise :
         LET k == PromptKeyResult(project_key, user_prompt)
         IN  /\ Answers(k, out)
             /\ memory' = k
             /\ ev' = << Ev("issue", << >>, "labels", out) >>
    /\ pc' = "menu"
    /\ NoWalk /\ NoCreate
    /\ UNCHANGED <<secrets, status, epic_memory>>

\* lines 1228-1232 and get_child_tasks, which catches everything
GetChilds ==
    /\ pc = "menu"
    /\ UNCHANGED pureVars
    /\ \E user_prompt \in KeyInputs, out \in OkOrRaise :
         LET k == PromptKeyResult(project_key, user_prompt)
         IN  /\ Answers(k, out)
             /\ memory' = k
             /\ ev' = << Ev("issue", << >>, "subtasks", out) >>
    /\ pc' = "menu"
    /\ NoWalk /\ NoCreate
    /\ UNCHANGED <<secrets, status, epic_memory>>

\* lines 1233-1234
Exit ==
    /\ pc = "menu"
    /\ UNCHANGED pureVars
    /\ pc' = "exited"
    /\ ev' = << >>
    /\ NoWalk /\ NoCreate
    /\ UNCHANGED <<secrets, status, memory, epic_memory>>

-----------------------------------------------------------------------------
(* The create_issue branch, lines 1112-1213. *)

\* float(story_points) raises ValueError unless the text is a number
FloatAccepts(story_points) == story_points = "3"

NoEpics == [set |-> FALSE, none |-> FALSE, epics |-> << >>]

\* the unresolved epics of the project, as the tracker's search returns them
EpicsFound == << project_key \o <<"-">> \o <<"7">> >>

\* get_epic_list.memory when a search that found nothing is not remembered
EpicMemoryUnlessNone(out, found) ==
    IF out # "ok" THEN [set |-> TRUE, none |-> FALSE, epics |-> << >>]
    ELSE IF found THEN [set |-> TRUE, none |-> FALSE, epics |-> EpicsFound]
    ELSE [set |-> FALSE, none |-> FALSE, epics |-> << >>]

\* get_epic_list.memory after the first call: set to [] before the search,
\* then to what search_for_issues returned (None when nothing matched)
EpicMemoryAfter(out, found) ==
    IF out # "ok" THEN [set |-> TRUE, none |-> FALSE, epics |-> << >>]
    ELSE IF found THEN [set |-> TRUE, none |-> FALSE, epics |-> EpicsFound]
    ELSE [set |-> TRUE, none |-> TRUE, epics |-> << >>]

\* what the user types for the parent when no list is shown: nothing, or a
\* bare number
ParentTexts == { << >>, <<"7">> }

\* prompt_parent, lines 812-827: the key selected from the list (the list
\* here has one key), else the text typed, a bare number qualified
PromptParent(list_parent, user_prompt) ==
    IF list_parent # << >> THEN list_parent[1]
    ELSE IF IsDigit(user_prompt) THEN project_key \o <<"-">> \o user_prompt
    ELSE user_prompt

\* get_user_input, lines 1114-1122: prompt_parent searches the epics (through
\* search_for_issues, which has no try block) on the first use of the list,
\* and the story points text is converted with float() when the result is
\* built
CreateInput ==
    /\ pc = "menu"
    /\ UNCHANGED pureVars
    /\ \E issue_type \in {"Story", "Sub-task"}, use_list_parent \in BOOLEAN,
          out \in OkOrRaise, found \in BOOLEAN, story_points \in {"3", ""},
          parent_text \in ParentTexts :
         LET searches == issue_type # "Sub-task" /\ use_list_parent /\ ~epic_memory.set
             asks == secrets.jira_type = "server" /\ issue_type # "Sub-task"
             list_parent ==
                 IF issue_type = "Sub-task" \/ ~use_list_parent THEN << >>
                 ELSE IF epic_memory.set THEN epic_memory.epics
                 ELSE EpicMemoryAfter(out, found).epics
             confirms ==
                 IF issue_type # "Sub-task"
                 THEN << Ev("confirm", << >>, "use_list_parent", use_list_parent) >>
                 ELSE << >>
             prompts ==
                 (IF asks THEN << Ev("prompt", << >>, "story_points", story_points) >>
                  ELSE << >>)
                 \o (IF secrets.jira_type = "server"
                     THEN << Ev("prompt", << >>, "watchers", "") >>
                     ELSE << >>)
         IN  /\ list_parent # << >> => parent_text = << >>
             /\ epic_memory' = IF searches THEN EpicMemoryAfter(out, found)
                               ELSE epic_memory
             /\ IF searches /\ out # "ok"
                THEN /\ ev' = confirms \o << Ev("search_issues", << >>, "epics", out) >>
                     /\ pc' = "crashed"
                     /\ task_details' = NoTask
                ELSE IF asks /\ ~FloatAccepts(story_points)
                THEN /\ ev' = confirms
                              \o (IF searches
                                  THEN << Ev("search_issues", << >>, "epics", out) >>
                                  ELSE << >>)
                              \o prompts
                              \o << Ev("float", << >>, "story_points", "error") >>
                     /\ pc' = "crashed"
                     /\ task_details' = NoTask
                ELSE /\ ev' = confirms
                              \o (IF searches
                                  THEN << Ev("search_issues", << >>, "epics", out) >>
                                  ELSE << >>)
                              \o prompts
                     /\ pc' = "ci_account"
                     /\ task_details' =
                          [issue_type |-> issue_type,
                           parent |-> PromptParent(list_parent, parent_text)]
    /\ creates' = << >>
    /\ account' = NoAccount
    /\ task' = << >>
    /\ NoWalk
    /\ UNCHANGED <<secrets, status, memory>>

\* get_account and get_account_id_by_email, lines 859-879: the handler of
\* the lookup reads e.text, which only a JIRAError has
GetAccount(at, next) ==
    /\ pc = at
    /\ UNCHANGED pureVars
    /\ IF secrets.jira_type = "server"
       THEN /\ account' = "name"
            /\ ev' = << >>
            /\ pc' = next
       ELSE \E out \in Outcomes, found \in BOOLEAN :
              /\ ev' = << Ev("search_users", << >>, found, out) >>
              /\ account' = IF out = "ok" /\ found THEN "accountId" ELSE "None"
              /\ pc' = IF out = "error" THEN "crashed" ELSE next
    /\ NoWalk
    /\ UNCHANGED <<secrets, task_details, creates, task, status, memory, epic_memory>>

\* lines 1159-1170 and 1195-1210: the keyword arguments both calls of
\* create_task pass as fields
KeywordFields == {"priority", "labels", "timetracking", "assignee", "duedate"}

\* lines 1124-1153 with the story points sent whatever the mode and the type
CustomFieldsUngated(jira_type, details) ==
    {"customfield_10002"}
    \cup (IF jira_type = "server" THEN {"customfield_44300"} ELSE {})
    \cup (IF details.parent = << >> THEN {} ELSE {"parent"})

\* lines 1124-1153: custom_fields of the issue
CustomFields(jira_type, details) ==
    IF jira_type = "server"
    THEN {"customfield_44300"}
         \cup (IF details.parent = << >> THEN {}
               ELSE IF details.issue_type # "Sub-task" THEN {"customfield_10434"}
               ELSE {"parent"})
         \cup (IF details.issue_type # "Sub-task" THEN {"customfield_10002"} ELSE {})
    ELSE IF details.parent # << >> THEN {"parent"} ELSE {}

\* lines 1185-1190: custom_fields of the sub-task
SubtaskCustomFields(jira_type) ==
    IF jira_type = "server" THEN {"customfield_44300"} ELSE {}

\* lines 168-176: issue_data, with the names of its fields and the parent
\* it names; a call sent is kept with the place it was sent from, how the
\* tracker answered and the key of the issue created
IssueData(issue_type, fields, parent) ==
    [issue_type |-> issue_type,
     fields |-> {"project", "summary", "description", "issuetype"} \cup fields,
     parent |-> parent, site |-> "", out |-> "", created |-> << >>]

\* create_task with the call repeated when it fails
CreateTaskRetry(at, r, issue_data) ==
    /\ pc = at
    /\ UNCHANGED pureVars
    /\ \E out \in OkOrRaise :
         LET n == Cardinality(DOMAIN status)
         IN  /\ out = "ok" => n < MaxIssues
             /\ ev' = << Ev("create_issue", << >>, account, out) >>
             /\ creates' = Append(creates,
                                  [issue_data EXCEPT !.site = at, !.out = out])
             /\ IF out = "ok"
                THEN /\ status' = status @@ (IssueKey(n + 1) :> "Open")
                     /\ task' = IssueKey(n + 1)
                     /\ EnterWalk(IssueKey(n + 1), r)
                ELSE /\ status' = status
                     /\ task' = << >>
                     /\ pc' = at
                     /\ NoWalk
    /\ UNCHANGED <<secrets, task_details, account, memory, epic_memory>>

\* create_task, lines 164-181: one create_issue call, everything caught.
\* A created issue is walked at once; the walk goes on at r.
CreateTask(at, r, issue_data) ==
    /\ pc = at
    /\ UNCHANGED pureVars
    /\ \E out \in OkOrRaise :
         LET n == Cardinality(DOMAIN status)
         IN  /\ out = "ok" => n < MaxIssues
             /\ ev' = << Ev("create_issue", << >>, account, out) >>
             /\ creates' =
                  Append(creates,
                         [issue_data EXCEPT
                            !.site = at, !.out = out,
                            !.created = IF out = "ok" THEN IssueKey(n + 1)
                                        ELSE << >>])
             /\ IF out = "ok"
                THEN /\ status' = status @@ (IssueKey(n + 1) :> "Open")
                     /\ task' = IssueKey(n + 1)
                     /\ EnterWalk(IssueKey(n + 1), r)
                ELSE /\ status' = status
                     /\ task' = << >>
                     /\ pc' = "menu"
                     /\ NoWalk
    /\ UNCHANGED <<secrets, task_details, account, memory, epic_memory>>

CreateAccount == GetAccount("ci_account", "ci_create")

\* lines 1159-1175
CreateIssue ==
    CreateTask("ci_create", "ci_offer",
               IssueData(task_details.issue_type,
                         KeywordFields \cup CustomFields(secrets.jira_type, task_details),
                         task_details.parent))

\* lines 1177-1191 with the offer made for a sub-task too
CreateOfferAlways ==
    /\ pc = "ci_offer"
    /\ UNCHANGED pureVars
    /\ \E create_subtask \in BOOLEAN :
         /\ ev' = << Ev("confirm", << >>, "subtask", create_subtask) >>
         /\ pc' = IF create_subtask THEN "st_account" ELSE "menu"
    /\ NoWalk
    /\ UNCHANGED <<secrets, task_details, creates, account, task, status, memory,
                   epic_memory>>

\* lines 1177-1191: the sub-task offer, made unless the issue is a sub-task
CreateOffer ==
    /\ pc = "ci_offer"
    /\ UNCHANGED pureVars
    /\ \E create_subtask \in BOOLEAN :
         /\ create_subtask => task_details.issue_type # "Sub-task"
         /\ ev' = IF task_details.issue_type # "Sub-task"
                  THEN << Ev("confirm", << >>, "subtask", create_subtask) >>
                  ELSE << >>
         /\ pc' = IF create_subtask THEN "st_account" ELSE "menu"
    /\ NoWalk
    /\ UNCHANGED <<secrets, task_details, creates, account, task, status, memory,
                   epic_memory>>

\* lines 1192-1194
SubAccount == GetAccount("st_account", "st_create")

\* lines 1195-1213
CreateSubtask ==
    CreateTask("st_create", "menu",
               IssueData("Sub-task",
                         KeywordFields \cup {"parent"}
                           \cup SubtaskCustomFields(secrets.jira_type),
                         task))

-----------------------------------------------------------------------------
(* The process: the state when the menu is first shown, and its steps. *)

MainInit ==
    /\ pc = "menu"
    /\ ret = "menu"
    /\ secrets \in [jira_type : {"cloud", "server"}]
    /\ key = << >>
    /\ transitions = << >>
    /\ next_status = ""
    /\ task_details = NoTask
    /\ creates = << >>
    /\ account = NoAccount
    /\ task = << >>
    /\ status \in {<< >>} \cup [{IssueKey(1)} -> Statuses]
    /\ memory = << >>
    /\ epic_memory = NoEpics
    /\ ev = << >>
    /\ offered = << >>
    /\ fresh = FALSE
    /\ applied = FALSE
    /\ failed = FALSE

Next ==
    \/ ListIssues
    \/ SearchIssue
    \/ Transition
    \/ WalkFetch
    \/ WalkStatus
    \/ WalkPrompt
    \/ WalkApply
    \/ Comment
    \/ CommentOffer
    \/ GetComment
    \/ LogWork
    \/ CreateInput
    \/ CreateAccount
    \/ CreateIssue
    \/ CreateOffer
    \/ SubAccount
    \/ CreateSubtask
    \/ GetTime
    \/ UpdateLabels
    \/ GetChilds
    \/ Exit

\* the state of the menu loop in the specifications of single functions
MainIdle ==
    /\ pc = "off"
    /\ ret = "menu"
    /\ secrets = [jira_type |-> "server"]
    /\ key = << >>
    /\ transitions = << >>
    /\ next_status = ""
    /\ task_details = NoTask
    /\ creates = << >>
    /\ account = NoAccount
    /\ task = << >>
    /\ status = << >>
    /\ memory = << >>
    /\ epic_memory = NoEpics
    /\ ev = << >>
    /\ offered = << >>
    /\ fresh = FALSE
    /\ applied = FALSE
    /\ failed = FALSE

KeyIdle ==
    /\ pk_project = << >>
    /\ pk_text = << >>
    /\ pk_key = << >>
    /\ pk_default = << >>

FmtIdle ==
    /\ seconds = << >>
    /\ formatted = << >>

NoLabels == [origin |-> << >>, type |-> << >>, project |-> << >>]

LabIdle ==
    /\ labels_conf = NoLabels
    /\ marked = NoLabels
    /\ labels = [prompts |-> << >>, labels |-> << >>]
    /\ lab_done = FALSE

\* Python's None, and the values of a JSON document: texts, booleans and
\* objects (their members in order, each a name and a value)
None == [t |-> "none", v |-> << >>]

JStr(text) == [t |-> "str", v |-> text]

JBool(b) == [t |-> "bool", v |-> b]

JObj(members) == [t |-> "obj", v |-> members]

NoFile == [exists |-> FALSE, text |-> << >>]

SecIdle ==
    /\ secret_file = NoFile
    /\ sec_pc = "off"
    /\ stored = None
    /\ loaded = None
    /\ had_file = FALSE
    /\ prompted = FALSE

NoDate == [year |-> 0, month |-> 0, day |-> 0]

DueIdle ==
    /\ now_utc = [date |-> NoDate, hour |-> 0]
    /\ due_input = << >>
    /\ due_date = None
    /\ due_done = FALSE

NoSearch ==
    [project |-> << >>, user_filter |-> << >>, assignee |-> None,
     matching |-> 0, outcome |-> "ok"]

SearchIdle ==
    /\ sq_in = NoSearch
    /\ sq_calls = << >>
    /\ sq_ret = None
    /\ sq_done = FALSE

AddIdle ==
    /\ ul_labels = << >>
    /\ ul_to_add = None
    /\ ul_log = << >>

NoBars == [spent_bar |-> << >>, remaining_bar |-> << >>, divided |-> FALSE]

BarIdle ==
    /\ tb_pc = "off"
    /\ tb_tracking = << >>
    /\ tb_info = None
    /\ tb_out = NoBars

\* no value collected
NoValues ==
    [summary |-> << >>, description |-> << >>, estimated_time |-> << >>,
     assignee |-> << >>]

ValIdle ==
    /\ cv_pc = "off"
    /\ cv_type = ""
    /\ cv_task = [issue_type |-> ""] @@ NoValues
    /\ cv_subtask = NoValues
    /\ cv_sent = << >>

MoreIdle == SearchIdle /\ AddIdle /\ BarIdle /\ ValIdle

FirstIdle == MainIdle /\ KeyIdle /\ FmtIdle /\ LabIdle /\ SecIdle /\ DueIdle

Init == MainInit /\ KeyIdle /\ FmtIdle /\ LabIdle /\ SecIdle /\ DueIdle /\ MoreIdle

Spec == Init /\ [][Next]_vars

-----------------------------------------------------------------------------
(* prompt_key on its own, lines 672-685. *)

\* the characters of the texts tried: digits, a letter, the hyphen, a space
KeyAlphabet == {"0", "1", "SUP2", "S", "-", " "}

\* the longest text tried
MaxKeyLen == 3

\* EmptyInputValidator refuses the empty text
KeyTexts == UNION { [1..n -> KeyAlphabet] : n \in 1..MaxKeyLen }

ProjectKeys == { project_key, <<"A", "1">> }

KeyInit ==
    /\ MainIdle
    /\ FmtIdle
    /\ LabIdle
    /\ SecIdle
    /\ DueIdle
    /\ MoreIdle
    /\ pk_project \in ProjectKeys
    /\ pk_text = << >>
    /\ pk_key = << >>
    /\ pk_default = << >>

\* lines 672-685 with the text typed remembered in place of the key
PromptKeyCallRaw(texts) ==
    \E text \in texts \cup ({memory} \ {<< >>}) :
      /\ pk_text' = text
      /\ pk_key' = PromptKeyResult(pk_project, text)
      /\ memory' = text

\* one call of prompt_key, lines 672-685: the user accepts the default (the
\* remembered key) or types one of `texts`
PromptKeyCall(texts) ==
    \E text \in texts \cup ({memory} \ {<< >>}) :
      /\ pk_text' = text
      /\ pk_key' = PromptKeyResult(pk_project, text)
      /\ memory' = pk_key'

PromptKey ==
    /\ PromptKeyCall(KeyTexts)
    /\ UNCHANGED <<pk_project, pk_default, menuVars, fmtVars, labVars, secVars,
                   dueVars, moreVars>>

KeyNext == PromptKey

SpecKey == KeyInit /\ [][KeyNext]_vars

\* the longest text tried over the prompts of a session
MaxMemoLen == 2

MemoTexts == UNION { [1..n -> {"1", "S", "-"}] : n \in 1..MaxMemoLen }

\* the prompts of a session, from whatever menu action: each call offers
\* prompt_key.memory as the default (line 678)
PromptKeyAgain ==
    /\ pk_default' = memory
    /\ PromptKeyCall(MemoTexts)
    /\ UNCHANGED <<pk_project, menuVars, fmtVars, labVars, secVars, dueVars,
                   moreVars>>

MemoNext == PromptKeyAgain

SpecMemory == KeyInit /\ [][MemoNext]_vars

-----------------------------------------------------------------------------
(* format_working_time on its own, lines 599-639. *)

SECONDS_IN_MINUTE == 60

SECONDS_IN_HOUR == 60 * SECONDS_IN_MINUTE

SECONDS_IN_WORKDAY == 8 * SECONDS_IN_HOUR

SECONDS_IN_WORKWEEK == 5 * SECONDS_IN_WORKDAY

Digit(d) == <<"0", "1", "2", "3", "4", "5", "6", "7", "8", "9">>[d + 1]

\* str(n) of a natural number, as an f-string renders it
RECURSIVE Decimal(_)
Decimal(n) ==
    IF n < 10 THEN << Digit(n) >> ELSE Decimal(n \div 10) \o << Digit(n % 10) >>

\* " ".join(parts)
RECURSIVE Join(_)
Join(parts) ==
    IF Len(parts) = 0 THEN << >>
    ELSE IF Len(parts) = 1 THEN parts[1]
    ELSE parts[1] \o <<" ">> \o Join(Tail(parts))

\* lines 611-639 with the lengths of the workday and the workweek given
FormatTime(sec, workday, workweek) ==
    IF sec = << >> \/ sec[1] <= 0 THEN <<"0", "m">>
    ELSE
      LET weeks == sec[1] \div workweek
          rem1 == sec[1] % workweek
          days == rem1 \div workday
          rem2 == rem1 % workday
          hours == rem2 \div SECONDS_IN_HOUR
          rem3 == rem2 % SECONDS_IN_HOUR
          minutes == rem3 \div SECONDS_IN_MINUTE
          parts ==
              (IF weeks # 0 THEN << Decimal(weeks) \o <<"w">> >> ELSE << >>)
              \o (IF days # 0 THEN << Decimal(days) \o <<"d">> >> ELSE << >>)
              \o (IF hours # 0 THEN << Decimal(hours) \o <<"h">> >> ELSE << >>)
              \o (IF minutes # 0 THEN << Decimal(minutes) \o <<"m">> >> ELSE << >>)
      IN  Join(IF parts = << >> THEN << <<"0", "m">> >> ELSE parts)

\* the same with calendar days of 24 hours
FormatCalendarTime(sec) ==
    FormatTime(sec, 24 * SECONDS_IN_HOUR, 5 * 24 * SECONDS_IN_HOUR)

format_working_time(sec) ==
    FormatTime(sec, SECONDS_IN_WORKDAY, SECONDS_IN_WORKWEEK)

\* the durations tried reach up to this many half hours
MaxHalfHours == 170

\* None, zero, negative numbers, a grid of half hours with offsets around
\* the minute, and two durations of ten weeks and more
Durations ==
    {<< >>, <<0>>, <<-1>>, <<-60>>, <<-28800>>, <<1440000>>, <<1472460>>}
    \cup { <<q * 1800 + r>> : q \in 0..MaxHalfHours, r \in {0, 1, 59, 60, 90, 1799} }

FmtInit ==
    /\ MainIdle
    /\ KeyIdle
    /\ LabIdle
    /\ SecIdle
    /\ DueIdle
    /\ MoreIdle
    /\ seconds \in Durations
    /\ formatted = << >>

FormatWorkingTime ==
    /\ formatted = << >>
    /\ formatted' = format_working_time(seconds)
    /\ UNCHANGED <<seconds, mainVars, keyVars, labVars, secVars, dueVars, moreVars>>

FmtNext == FormatWorkingTime

SpecFmt == FmtInit /\ [][FmtNext]_vars

-----------------------------------------------------------------------------
(* prompt_labels as get_user_input calls it, lines 905-913 and 744-776. *)

\* text.split(",")
RECURSIVE Split(_)
Split(text) ==
    IF \A i \in 1..Len(text) : text[i] # ","
    THEN << text >>
    ELSE LET i == CHOOSE k \in 1..Len(text) :
                     text[k] = "," /\ \A j \in 1..(k-1) : text[j] # ","
         IN  << SubSeq(text, 1, i - 1) >> \o Split(SubSeq(text, i + 1, Len(text)))

\* text.strip()
RECURSIVE Strip(_)
Strip(text) ==
    IF text = << >> THEN text
    ELSE IF text[1] = " " THEN Strip(Tail(text))
    ELSE IF text[Len(text)] = " " THEN Strip(SubSeq(text, 1, Len(text) - 1))
    ELSE text

\* [l.strip() for l in conf.split(",")]
LabelList(conf) ==
    LET pieces == Split(conf)
    IN  [i \in 1..Len(pieces) |-> Strip(pieces[i])]

\* inquirer.checkbox: the choices the user marked, in the order shown
Checkbox(choices, ticks) ==
    LET shown == SelectSeq([i \in 1..Len(choices) |-> i], LAMBDA i : i \in ticks)
    IN  [k \in 1..Len(shown) |-> choices[shown[k]]]

\* [""], the list a category with nothing configured splits into
Unconfigured == << << >> >>

\* prompt_labels with the project labels first
prompt_labels_reordered(origin_labels, type_labels, project_labels, ticks) ==
    LET labels_origin == IF origin_labels # Unconfigured
                         THEN Checkbox(origin_labels, ticks.origin) ELSE << >>
        labels_type == IF type_labels # Unconfigured
                       THEN Checkbox(type_labels, ticks.type) ELSE << >>
        labels_project == IF project_labels # Unconfigured
                          THEN Checkbox(project_labels, ticks.project) ELSE << >>
    IN  [prompts |->
             (IF origin_labels # Unconfigured THEN <<"origin">> ELSE << >>)
             \o (IF type_labels # Unconfigured THEN <<"type">> ELSE << >>)
             \o (IF project_labels # Unconfigured THEN <<"project">> ELSE << >>),
         labels |-> labels_project \o labels_origin \o labels_type]

\* prompt_labels: the checkboxes it shows, and the list it returns when the
\* user marks the choices numbered `ticks` in them
prompt_labels(origin_labels, type_labels, project_labels, ticks) ==
    LET labels_origin == IF origin_labels # Unconfigured
                         THEN Checkbox(origin_labels, ticks.origin) ELSE << >>
        labels_type == IF type_labels # Unconfigured
                       THEN Checkbox(type_labels, ticks.type) ELSE << >>
        labels_project == IF project_labels # Unconfigured
                          THEN Checkbox(project_labels, ticks.project) ELSE << >>
    IN  [prompts |->
             (IF origin_labels # Unconfigured THEN <<"origin">> ELSE << >>)
             \o (IF type_labels # Unconfigured THEN <<"type">> ELSE << >>)
             \o (IF project_labels # Unconfigured THEN <<"project">> ELSE << >>),
         labels |-> labels_origin \o labels_type \o labels_project]

\* the three configured texts hold at most this many characters together
MaxConfChars == 4

\* a configured text: label characters, commas and spaces
ConfTexts(n, letter) == [1..n -> {letter, ",", " "}]

LabInit ==
    /\ MainIdle
    /\ KeyIdle
    /\ FmtIdle
    /\ SecIdle
    /\ DueIdle
    /\ MoreIdle
    /\ \E n1 \in 0..MaxConfChars :
         \E n2 \in 0..(MaxConfChars - n1) :
           \E n3 \in 0..(MaxConfChars - n1 - n2) :
             labels_conf \in [origin : ConfTexts(n1, "o"),
                              type : ConfTexts(n2, "t"),
                              project : ConfTexts(n3, "p")]
    /\ marked = NoLabels
    /\ labels = [prompts |-> << >>, labels |-> << >>]
    /\ lab_done = FALSE

\* lines 909-913: the three lists are built and prompt_labels is called; the
\* user marks any of the choices of each checkbox shown
PromptLabels ==
    /\ ~lab_done
    /\ LET origin_labels == LabelList(labels_conf.origin)
           type_labels == LabelList(labels_conf.type)
           project_labels == LabelList(labels_conf.project)
       IN  \E ticks \in [origin : SUBSET (1..Len(origin_labels)),
                         type : SUBSET (1..Len(type_labels)),
                         project : SUBSET (1..Len(project_labels))] :
             /\ labels' = prompt_labels(origin_labels, type_labels,
                                        project_labels, ticks)
             /\ \A c \in {"origin", "type", "project"} :
                   (\A i \in 1..Len(labels'.prompts) : labels'.prompts[i] # c)
                   => ticks[c] = {}
             /\ marked' = [origin |-> Checkbox(origin_labels, ticks.origin),
                           type |-> Checkbox(type_labels, ticks.type),
                           project |-> Checkbox(project_labels, ticks.project)]
    /\ lab_done' = TRUE
    /\ UNCHANGED <<labels_conf, mainVars, keyVars, fmtVars, secVars, dueVars, moreVars>>

LabNext == PromptLabels

SpecLabels == LabInit /\ [][LabNext]_vars

-----------------------------------------------------------------------------
(* store_secrets and check_for_existing_secrets, lines 145-160.  The file   *)
(* is a text: a sequence of characters.  QUOTE, BACKSLASH and NEWLINE name  *)
(* the characters that JSON escapes; a member name or a choice of a list   *)
(* prompt ("cloud") stands as one character.                               *)

\* json.dumps of a text: the characters between the quotes
EscapeNothing(text) == text

RECURSIVE Escape(_)
Escape(text) ==
    IF text = << >> THEN << >>
    ELSE (CASE text[1] = "QUOTE" -> <<"BACKSLASH", "QUOTE">>
            [] text[1] = "BACKSLASH" -> <<"BACKSLASH", "BACKSLASH">>
            [] text[1] = "NEWLINE" -> <<"BACKSLASH", "n">>
            [] OTHER -> << text[1] >>)
         \o Escape(Tail(text))

DumpString(text) == <<"QUOTE">> \o Escape(text) \o <<"QUOTE">>

\* indent=4
Indent(level) == [i \in 1..(4 * level) |-> " "]

\* json.dump(value, f, indent=4), for a value nested `level` deep
RECURSIVE Dump(_, _)
RECURSIVE DumpMembers(_, _)
DumpMembers(members, level) ==
    Indent(level) \o DumpString(members[1][1]) \o <<":", " ">>
    \o Dump(members[1][2], level)
    \o (IF Len(members) = 1 THEN << >>
        ELSE <<",", "NEWLINE">> \o DumpMembers(Tail(members), level))

Dump(value, level) ==
    CASE value.t = "str" -> DumpString(value.v)
      [] value.t = "bool" -> IF value.v THEN <<"t", "r", "u", "e">>
                             ELSE <<"f", "a", "l", "s", "e">>
      [] OTHER -> IF value.v = << >> THEN <<"{", "}">>
                  ELSE <<"{", "NEWLINE">> \o DumpMembers(value.v, level + 1)
                       \o <<"NEWLINE">> \o Indent(level) \o <<"}">>

json_dump(value) == Dump(value, 0)

\* json.load: a failed parse is the value ParseError (the call raises)
ParseError == [t |-> "error", v |-> << >>]

Failed == [ok |-> FALSE, val |-> ParseError, next |-> 0]

Parsed(value, next) == [ok |-> TRUE, val |-> value, next |-> next]

RECURSIVE SkipSpace(_, _)
SkipSpace(text, i) ==
    IF i <= Len(text) /\ text[i] \in {" ", "NEWLINE"}
    THEN SkipSpace(text, i + 1) ELSE i

Matches(text, i, word) ==
    i + Len(word) - 1 <= Len(text) /\ SubSeq(text, i, i + Len(word) - 1) = word

\* the characters of a text up to its closing quote, escapes undone
RECURSIVE ParseChars(_, _, _)
ParseChars(text, i, acc) ==
    IF i > Len(text) \/ text[i] = "NEWLINE" THEN Failed
    ELSE IF text[i] = "QUOTE" THEN Parsed(JStr(acc), i + 1)
    ELSE IF text[i] = "BACKSLASH"
    THEN IF i + 1 > Len(text) THEN Failed
         ELSE CASE text[i + 1] = "QUOTE" ->
                     ParseChars(text, i + 2, Append(acc, "QUOTE"))
                [] text[i + 1] = "BACKSLASH" ->
                     ParseChars(text, i + 2, Append(acc, "BACKSLASH"))
                [] text[i + 1] = "n" ->
                     ParseChars(text, i + 2, Append(acc, "NEWLINE"))
                [] OTHER -> Failed
    ELSE ParseChars(text, i + 1, Append(acc, text[i]))

RECURSIVE ParseValue(_, _)
RECURSIVE ParseMembers(_, _, _)
\* the members of an object from position i, after `acc`
ParseMembers(text, i, acc) ==
    IF i > Len(text) \/ text[i] # "QUOTE" THEN Failed
    ELSE LET name == ParseChars(text, i + 1, << >>)
             colon == SkipSpace(text, name.next)
         IN  IF ~name.ok \/ colon > Len(text) \/ text[colon] # ":" THEN Failed
             ELSE LET value == ParseValue(text, SkipSpace(text, colon + 1))
                      after == SkipSpace(text, value.next)
                      members == Append(acc, <<name.val.v, value.val>>)
                  IN  IF ~value.ok \/ after > Len(text) THEN Failed
                      ELSE IF text[after] = "}" THEN Parsed(JObj(members), after + 1)
                      ELSE IF text[after] = ","
                      THEN ParseMembers(text, SkipSpace(text, after + 1), members)
                      ELSE Failed

ParseValue(text, i) ==
    IF i > Len(text) THEN Failed
    ELSE CASE text[i] = "QUOTE" -> ParseChars(text, i + 1, << >>)
           [] text[i] = "t" -> IF Matches(text, i, <<"t", "r", "u", "e">>)
                               THEN Parsed(JBool(TRUE), i + 4) ELSE Failed
           [] text[i] = "f" -> IF Matches(text, i, <<"f", "a", "l", "s", "e">>)
                               THEN Parsed(JBool(FALSE), i + 5) ELSE Failed
           [] text[i] = "{" ->
                LET first == SkipSpace(text, i + 1)
                IN  IF first <= Len(text) /\ text[first] = "}"
                    THEN Parsed(JObj(<< >>), first + 1)
                    ELSE ParseMembers(text, first, << >>)
           [] OTHER -> Failed

json_load(text) ==
    LET r == ParseValue(text, SkipSpace(text, 1))
    IN  IF r.ok /\ SkipSpace(text, r.next) > Len(text) THEN r.val ELSE ParseError

\* the configuration prompt_for_secrets builds (lines 54-138) from what the
\* user enters: the free texts are a and b
Configuration(a, b, jira_type, ssl_cert, use_predefined_labels) ==
    JObj(<< << <<"server_url">>, JStr(a) >>,
            << <<"project_key">>, JStr(b) >>,
            << <<"priorities">>, JStr(a) >>,
            << <<"api_token">>, JStr(b) >>,
            << <<"username">>, JStr(a) >>,
            << <<"jira_type">>, JStr(<< jira_type >>) >>,
            << <<"ssl_cert">>, JBool(ssl_cert) >>,
            << <<"labels_conf">>,
               IF use_predefined_labels
               THEN JObj(<< << <<"is_enable">>, JBool(TRUE) >>,
                            << <<"labels">>,
                               JObj(<< << <<"origin">>, JStr(a) >>,
                                       << <<"type">>, JStr(b) >>,
                                       << <<"project">>, JStr(b \o a) >>,
                                       << <<"resolve">>, JStr(<< >>) >> >>) >> >>)
               ELSE JObj(<< << <<"is_enable">>, JBool(FALSE) >> >>) >>,
            << <<"watchers">>, JStr(b) >>,
            << <<"assignees">>, JStr(<<"n">> \o a) >> >>)

\* the longest free text entered
MaxTextLen == 2

\* the characters of the free texts: a letter and the characters JSON escapes
TextChars == {"n", "QUOTE", "BACKSLASH", "NEWLINE"}

Texts == UNION { [1..n -> TextChars] : n \in 0..MaxTextLen }

OtherTexts == { << >>, <<"BACKSLASH", "n">>, <<"u", "QUOTE">> }

SecInit ==
    /\ MainIdle
    /\ KeyIdle
    /\ FmtIdle
    /\ LabIdle
    /\ DueIdle
    /\ MoreIdle
    /\ secret_file = NoFile
    /\ sec_pc = "start"
    /\ stored = None
    /\ loaded = None
    /\ had_file = FALSE
    /\ prompted = FALSE

\* lines 154-160, with prompt_for_secrets and store_secrets (lines 145-150)
\* on the first run
CheckForExistingSecrets ==
    /\ sec_pc = "start"
    /\ had_file' = secret_file.exists
    /\ IF secret_file.exists
       THEN /\ loaded' = json_load(secret_file.text)
            /\ prompted' = FALSE
            /\ UNCHANGED <<secret_file, stored>>
       ELSE \E a \in Texts, b \in OtherTexts, jira_type \in {"cloud", "server"},
               ssl_cert \in BOOLEAN, use_predefined_labels \in BOOLEAN :
              LET configuration ==
                      Configuration(a, b, jira_type, ssl_cert, use_predefined_labels)
              IN  /\ stored' = configuration
                  /\ secret_file' = [exists |-> TRUE, text |-> json_dump(configuration)]
                  /\ loaded' = None
                  /\ prompted' = TRUE
    /\ sec_pc' = "returned"
    /\ UNCHANGED <<mainVars, keyVars, fmtVars, labVars, dueVars, moreVars>>

\* the program ends (at once when the check returned None) and is run again
RunAgain ==
    /\ sec_pc = "returned"
    /\ sec_pc' = "start"
    /\ UNCHANGED <<secret_file, stored, loaded, had_file, prompted>>
    /\ UNCHANGED <<mainVars, keyVars, fmtVars, labVars, dueVars, moreVars>>

SecNext == CheckForExistingSecrets \/ RunAgain

SpecSecrets == SecInit /\ [][SecNext]_vars

-----------------------------------------------------------------------------
(* prompt_due_date, lines 792-799, and get_date_plus_30_days_formatted,     *)
(* lines 407-425.  A date is a year, a month and a day of the proleptic     *)
(* Gregorian calendar; datetime counts days from 1 January of year 1.       *)

IsLeap(year) == year % 4 = 0 /\ (year % 100 # 0 \/ year % 400 = 0)

DaysInMonth(year, month) ==
    IF month = 2 /\ IsLeap(year) THEN 29
    ELSE <<31, 28, 31, 30, 31, 30, 31, 31, 30, 31, 30, 31>>[month]

\* the days of the year before the first of the month
RECURSIVE DaysBeforeMonth(_, _)
DaysBeforeMonth(year, month) ==
    IF month = 1 THEN 0
    ELSE DaysBeforeMonth(year, month - 1) + DaysInMonth(year, month - 1)

DaysBeforeYear(year) ==
    (year - 1) * 365 + (year - 1) \div 4 - (year - 1) \div 100 + (year - 1) \div 400

\* date.toordinal
ToOrdinal(date) ==
    DaysBeforeYear(date.year) + DaysBeforeMonth(date.year, date.month) + date.day

\* date.fromordinal: the 400-, 100-, 4- and 1-year cycles of the calendar
FromOrdinal(ordinal) ==
    LET n == ordinal - 1
        n400 == n \div 146097
        r400 == n % 146097
        n100 == r400 \div 36524
        r100 == r400 % 36524
        n4 == r100 \div 1461
        r4 == r100 % 1461
        n1 == r4 \div 365
        r1 == r4 % 365
        year == n400 * 400 + n100 * 100 + n4 * 4 + n1 + 1
        month == CHOOSE m \in 1..12 :
                    /\ DaysBeforeMonth(year, m) <= r1
                    /\ r1 < DaysBeforeMonth(year, m) + DaysInMonth(year, m)
    IN  IF n1 = 4 \/ n100 = 4
        THEN [year |-> year - 1, month |-> 12, day |-> 31]
        ELSE [year |-> year, month |-> month,
              day |-> r1 - DaysBeforeMonth(year, month) + 1]

\* timedelta(days=30), line 420
DAYS_AHEAD == 30

\* the zones pytz knows, with their offsets from UTC in hours
UtcOffset == [ UTC |-> 0, AsiaTokyo |-> 9 ]

\* datetime.now(tz).date(): the calendar date of the clock in the zone
DateIn(clock, tz_str) ==
    IF clock.hour + UtcOffset[tz_str] >= 24
    THEN FromOrdinal(ToOrdinal(clock.date) + 1)
    ELSE clock.date

\* str of n, zero-padded to `width` digits, as %Y, %m and %d render it
RECURSIVE Pad(_, _)
Pad(n, width) ==
    IF width = 0 THEN << >> ELSE Pad(n \div 10, width - 1) \o << Digit(n % 10) >>

\* strftime("%Y-%m-%d")
Strftime(date) ==
    Pad(date.year, 4) \o <<"-">> \o Pad(date.month, 2) \o <<"-">> \o Pad(date.day, 2)

\* lines 417-425
get_date_plus_30_days_formatted(clock, tz_str) ==
    IF tz_str \in DOMAIN UtcOffset
    THEN JStr(Strftime(FromOrdinal(ToOrdinal(DateIn(clock, tz_str)) + DAYS_AHEAD)))
    ELSE None

\* lines 792-799 with the zone given
DueDateIn(clock, text, tz_str) ==
    IF text = << >> THEN get_date_plus_30_days_formatted(clock, tz_str)
    ELSE JStr(text)

prompt_due_date_in_tokyo(clock, text) == DueDateIn(clock, text, "AsiaTokyo")

prompt_due_date(clock, text) == DueDateIn(clock, text, "UTC")

\* the years of the clock after the first
MaxYears == 1

Years == 2027..(2027 + MaxYears) \cup {2099, 2100}

Dates ==
    { [year |-> y, month |-> m, day |-> d] :
        y \in Years, m \in 1..12, d \in 1..31 }

Clocks ==
    { [date |-> date, hour |-> h] :
        date \in { c \in Dates : c.day <= DaysInMonth(c.year, c.month) },
        h \in {0, 23} }

DueInputs ==
    { << >>, <<" ">>, <<"3", "0", "d">>,
      <<"2", "0", "2", "7", "-", "0", "2", "-", "3", "0">> }

DueInit ==
    /\ MainIdle
    /\ KeyIdle
    /\ FmtIdle
    /\ LabIdle
    /\ SecIdle
    /\ MoreIdle
    /\ now_utc \in Clocks
    /\ due_input \in DueInputs
    /\ due_date = None
    /\ due_done = FALSE

PromptDueDate ==
    /\ ~due_done
    /\ due_date' = prompt_due_date(now_utc, due_input)
    /\ due_done' = TRUE
    /\ UNCHANGED <<now_utc, due_input, mainVars, keyVars, fmtVars, labVars, secVars, moreVars>>

DueNext == PromptDueDate

SpecDue == DueInit /\ [][DueNext]_vars

-----------------------------------------------------------------------------
(* search_for_issues, lines 203-229.  A query is a text of words and        *)
(* spaces.                                                                  *)

\* the named user when one is given (a text that is not empty)
SearchUser(assignee) ==
    IF assignee.t = "str" /\ assignee.v # << >> THEN assignee.v
    ELSE <<"currentUser()">>

\* lines 210-217: the predicate of a filter name
StatusPredicate(user_filter) ==
    CASE user_filter = <<"Open">> ->
           <<" ", "resolution", " ", "=", " ", "Unresolved">>
      [] user_filter = <<"Active">> ->
           <<" ", "resolution", " ", "=", " ", "Unresolved", " ", "AND", " ",
             "status", " ", "!=", " ", "Backlog">>
      [] user_filter = <<"Done">> ->
           <<" ", "resolution", " ", "!=", " ", "Unresolved">>
      [] OTHER -> user_filter

\* lines 204-220 without the assignee scope
SearchQueryAnyUser(project, user_filter, assignee) ==
    <<"project", "=">> \o project \o <<" ">>
    \o <<"AND", " ">> \o StatusPredicate(user_filter)

\* lines 204-220: the query
SearchQuery(project, user_filter, assignee) ==
    <<"project", "=">> \o project \o <<" ", "AND", " ", "assignee", "=">>
    \o SearchUser(assignee) \o <<" ">>
    \o <<"AND", " ">> \o StatusPredicate(user_filter)

\* maxResults=50, line 224
MAX_RESULTS == 50

\* the most issues a query matches
MaxMatching == 51

SearchFilters ==
    { <<"Open">>, <<"Active">>, <<"Done">>, <<"open">>, << >>,
      <<"key", " ", "=", " ", "SPF-1">>,
      <<"status", "=", "Done", " ", "OR", " ", "project", "=", "X">> }

SearchAssignees == { None, JStr(<< >>), JStr(<<"ann">>) }

SearchInit ==
    /\ FirstIdle
    /\ AddIdle
    /\ BarIdle
    /\ ValIdle
    /\ sq_in \in [project : {project_key, <<"X">>},
                  user_filter : SearchFilters,
                  assignee : SearchAssignees,
                  matching : 0..MaxMatching,
                  outcome : OkOrRaise]
    /\ sq_calls = << >>
    /\ sq_ret = None
    /\ sq_done = FALSE

\* what search_issues answers: at most maxResults of the matching issues
Found(matching, maxResults) ==
    IF matching < maxResults THEN matching ELSE maxResults

\* lines 203-229; the issues returned are counted
SearchForIssues ==
    /\ ~sq_done
    /\ sq_calls' = Append(sq_calls,
                          [jql |-> SearchQuery(sq_in.project, sq_in.user_filter,
                                               sq_in.assignee),
                           maxResults |-> MAX_RESULTS])
    /\ sq_ret' = IF sq_in.outcome # "ok" THEN [t |-> "raised", v |-> << >>]
                 ELSE IF Found(sq_in.matching, MAX_RESULTS) = 0 THEN None
                 ELSE [t |-> "issues", v |-> Found(sq_in.matching, MAX_RESULTS)]
    /\ sq_done' = TRUE
    /\ UNCHANGED <<sq_in, firstVars, addVars, barVars, valVars>>

SearchNext == SearchForIssues

SpecSearch == SearchInit /\ [][SearchNext]_vars

-----------------------------------------------------------------------------
(* update_jira_labels, lines 456-498.  Labels are lists, as the tracker     *)
(* returns them and as issue.update sends them.                             *)

In(label, list) == \E i \in 1..Len(list) : list[i] = label

\* lines 479-487 with the labels of the issue left out of the update
LabelUpdateAlone(current_labels, labels_to_add) ==
    IF labels_to_add.t = "none" THEN << >>
    ELSE SelectSeq(labels_to_add.v, LAMBDA label : ~In(label, current_labels))

\* lines 477-487: the list sent to the tracker, empty when nothing is sent
LabelUpdate(current_labels, labels_to_add) ==
    LET updates ==
          IF labels_to_add.t = "none" THEN << >>
          ELSE SelectSeq(labels_to_add.v, LAMBDA label : ~In(label, current_labels))
    IN  IF updates # << >> THEN updates \o current_labels ELSE << >>

\* the longest list of labels to add
MaxToAdd == 2

LabelNames == {"a", "b", "c"}

LabelLists(n) == UNION { [1..k -> LabelNames] : k \in 0..n }

AddInit ==
    /\ FirstIdle
    /\ SearchIdle
    /\ BarIdle
    /\ ValIdle
    /\ ul_labels \in { << >>, <<"a">>, <<"b", "a">>, <<"c">> }
    /\ ul_to_add \in {None} \cup { [t |-> "list", v |-> l] : l \in LabelLists(MaxToAdd) }
    /\ ul_log = << >>

\* one call of update_jira_labels, lines 473-498; the caller makes it, and
\* may make it again with the same labels
UpdateJiraLabels ==
    /\ Len(ul_log) < 2
    /\ \E fetched \in OkOrRaise, updated \in OkOrRaise :
         LET sent == IF fetched = "ok" THEN LabelUpdate(ul_labels, ul_to_add)
                     ELSE << >>
             accepted == sent # << >> /\ updated = "ok"
         IN  /\ ul_labels' = IF accepted THEN sent ELSE ul_labels
             /\ ul_log' = Append(ul_log,
                                 [before |-> ul_labels,
                                  sent |-> sent,
                                  ret |-> fetched = "ok" /\ (sent = << >> \/ accepted),
                                  after |-> ul_labels'])
    /\ UNCHANGED <<ul_to_add, firstVars, searchVars, barVars, valVars>>

AddNext == UpdateJiraLabels

SpecAddLabels == AddInit /\ [][AddNext]_vars

-----------------------------------------------------------------------------
(* get_time_tracking_info, lines 514-562, and display_time_bar, lines       *)
(* 642-669.  Times are whole numbers of a unit; int(x / total * 20) is the  *)
(* whole part of the quotient.                                              *)

\* the longest time of a record
MaxTime == 3

TimeFields == {"remainingEstimateSeconds", "timeSpentSeconds", "originalEstimateSeconds"}

\* the time tracking of an issue: each field is there or not
Trackings == UNION { [fields -> 0..MaxTime] : fields \in SUBSET TimeFields }

\* lines 527-551: the record built from the tracker's fields
TimeInfo(timetracking) ==
    LET remaining == IF "remainingEstimateSeconds" \in DOMAIN timetracking
                     THEN timetracking["remainingEstimateSeconds"] ELSE 0
        timeSpent == IF "timeSpentSeconds" \in DOMAIN timetracking
                     THEN timetracking["timeSpentSeconds"] ELSE 0
        original == IF "originalEstimateSeconds" \in DOMAIN timetracking
                    THEN timetracking["originalEstimateSeconds"]
                    ELSE remaining + timeSpent
    IN  IF DOMAIN timetracking = {} THEN None
        ELSE [t |-> "info",
              v |-> [remainingEstimate |-> remaining, timeSpent |-> timeSpent,
                     originalEstimate |-> original]]

\* c * n: the character n times, no character when n is negative
Repeat(c, n) == [i \in 1..n |-> c]

\* lines 657-661: the two bars
Bars(total, spent, remaining) ==
    LET spent_percent == (spent * 20) \div total
        remaining_percent == (remaining * 20) \div total
    IN  [spent_bar |-> <<"[">> \o Repeat("=", spent_percent)
                       \o Repeat(" ", 20 - spent_percent) \o <<"]">>,
         remaining_bar |-> <<"[">> \o Repeat(" ", remaining_percent)
                           \o Repeat("-", 20 - remaining_percent) \o <<"]">>,
         divided |-> TRUE]

\* lines 644-669
display_time_bar(time_info) ==
    IF time_info.t = "none" THEN NoBars
    ELSE IF time_info.v.originalEstimate = 0 THEN NoBars
    ELSE Bars(time_info.v.originalEstimate, time_info.v.timeSpent,
              time_info.v.remainingEstimate)

BarInit ==
    /\ FirstIdle
    /\ SearchIdle
    /\ AddIdle
    /\ ValIdle
    /\ tb_pc = "fetch"
    /\ tb_tracking \in Trackings
    /\ tb_info = None
    /\ tb_out = NoBars

\* lines 524-562: a JIRAError is caught and None returned
GetTimeTrackingInfo ==
    /\ tb_pc = "fetch"
    /\ \E out \in {"ok", "jira_error"} :
         tb_info' = IF out = "ok" THEN TimeInfo(tb_tracking) ELSE None
    /\ tb_pc' = "display"
    /\ UNCHANGED <<tb_tracking, tb_out, firstVars, searchVars, addVars, valVars>>

\* line 1216
DisplayTimeBar ==
    /\ tb_pc = "display"
    /\ tb_out' = display_time_bar(tb_info)
    /\ tb_pc' = "done"
    /\ UNCHANGED <<tb_tracking, tb_info, firstVars, searchVars, addVars, valVars>>

BarNext == GetTimeTrackingInfo \/ DisplayTimeBar

SpecBar == BarInit /\ [][BarNext]_vars

-----------------------------------------------------------------------------
(* The create_issue branch, followed for the values it sends: what          *)
(* get_user_input and get_subtask_input return and what each create_issue   *)
(* call carries.  The walk that follows a created issue reads none of      *)
(* these values; it is specified with the menu loop.                        *)

\* the longest text typed at a prompt
MaxTyped == 2

\* lines 703-727: the texts the text prompts return (EmptyInputValidator
\* refuses the empty text)
TypedTexts == { Repeat("x", n) : n \in 1..MaxTyped }

\* lines 973-974: the configured assignees, the choices of prompt_assignee
AssigneeList == { <<"ann">>, <<"bob">> }

\* lines 859-879: a literal name in server mode; in cloud mode the account
\* identifier of the user found for the address, or None
get_account(jira_type, assignee, found) ==
    IF jira_type = "server" THEN [t |-> "name", v |-> assignee]
    ELSE IF found THEN [t |-> "accountId", v |-> assignee]
    ELSE None

ValInit ==
    /\ FirstIdle
    /\ SearchIdle
    /\ AddIdle
    /\ BarIdle
    /\ cv_pc = "input"
    /\ cv_type \in {"server", "cloud"}
    /\ cv_task = [issue_type |-> ""] @@ NoValues
    /\ cv_subtask = NoValues
    /\ cv_sent = << >>

\* lines 1114-1122, get_user_input: the values this branch follows
GetUserInput ==
    /\ cv_pc = "input"
    /\ \E summary \in TypedTexts, description \in TypedTexts,
          issue_type \in {"Story", "Sub-task"}, estimated_time \in TypedTexts,
          assignee \in AssigneeList :
         cv_task' = [summary |-> summary, description |-> description,
                     issue_type |-> issue_type,
                     estimated_time |-> estimated_time, assignee |-> assignee]
    /\ cv_pc' = "create"
    /\ UNCHANGED <<cv_type, cv_subtask, cv_sent, firstVars, searchVars, addVars,
                   barVars>>

\* get_account, then create_task (lines 164-181): one create_issue call with
\* issue_data built from the arguments.  The handler of the lookup reads
\* e.text, which only a JIRAError has.
SendCreate(at, next, issue_type, summary, description, estimated_time, assignee) ==
    /\ cv_pc = at
    /\ \E lookup \in Outcomes, found \in BOOLEAN, out \in OkOrRaise :
         IF cv_type = "cloud" /\ lookup = "error"
         THEN /\ cv_pc' = "crashed"
              /\ cv_sent' = cv_sent
         ELSE /\ cv_sent' =
                   Append(cv_sent,
                          [site |-> at,
                           summary |-> summary,
                           description |-> description,
                           issuetype |-> issue_type,
                           originalEstimate |-> estimated_time,
                           assignee |-> get_account(cv_type, assignee,
                                                    lookup = "ok" /\ found),
                           out |-> out])
              /\ cv_pc' = IF out = "ok" THEN next ELSE "done"
    /\ UNCHANGED <<cv_type, cv_task, cv_subtask, firstVars, searchVars, addVars,
                   barVars>>

\* lines 1155-1175
CreateTaskValues ==
    SendCreate("create", "offer", cv_task.issue_type, cv_task.summary,
               cv_task.description, cv_task.estimated_time, cv_task.assignee)

\* lines 1177-1191: the offer, and get_subtask_input when it is taken
GetSubtaskInput ==
    /\ cv_pc = "offer"
    /\ \E create_subtask \in BOOLEAN :
         IF cv_task.issue_type # "Sub-task" /\ create_subtask
         THEN /\ \E summary \in TypedTexts, description \in TypedTexts,
                    estimated_time \in TypedTexts, assignee \in AssigneeList :
                   cv_subtask' = [summary |-> summary,
                                  description |-> description,
                                  estimated_time |-> estimated_time,
                                  assignee |-> assignee]
              /\ cv_pc' = "sub_create"
         ELSE /\ cv_subtask' = cv_subtask
              /\ cv_pc' = "done"
    /\ UNCHANGED <<cv_type, cv_task, cv_sent, firstVars, searchVars, addVars,
                   barVars>>

\* lines 1192-1213: the summary, the description and the assignee come from
\* subtask_details, the estimate from task_details
CreateSubtaskValues ==
    SendCreate("sub_create", "done", "Sub-task", cv_subtask.summary,
               cv_subtask.description, cv_task.estimated_time,
               cv_subtask.assignee)

ValNext == GetUserInput \/ CreateTaskValues \/ GetSubtaskInput \/ CreateSubtaskValues

SpecValues == ValInit /\ [][ValNext]_vars

-----------------------------------------------------------------------------
(* Properties of the transition walk and of the menu loop. *)

\* C1: in transition_in_loop, a fetch that returns an empty transition list
\* ends the loop in that very step: the walk returns to its caller, the step
\* made the fetch and nothing else (no prompt, no transition_issue call) and
\* the issue is left as it was; on the first iteration and on later ones.
C1_EmptyListEndsWalk ==
    [][ (pc = "walk_fetch" /\ ev'[1].out = "ok" /\ Workflow(status[key]) = << >>)
        => /\ pc' = ret
           /\ pc' \notin WalkPcs
           /\ ev' = << Ev("transitions", key, << >>, "ok") >>
           /\ status' = status ]_vars

\* the loop ended on an empty list after this walk had applied a transition
C1_Witness ==
    /\ pc = ret
    /\ applied
    /\ ev = << Ev("transitions", key, << >>, "ok") >>
    /\ offered = << >>

\* C2: every transition_issue call uses an id of the list the tracker
\* returned in the same iteration (which is the list of the issue's current
\* status), under the name the user selected; every prompt shows the names
\* of a list fetched after the last applied transition.
C2_ChoicesNeverReused ==
    [][ /\ (pc = "walk_apply" /\ pc' # pc) =>
              /\ fresh
              /\ offered = Workflow(status[key])
              /\ ev'[1].op = "transition_issue"
              /\ \E i \in 1..Len(offered) :
                    offered[i].id = ev'[1].arg /\ offered[i].name = next_status
        /\ (pc = "walk_prompt" /\ pc' # pc) =>
              /\ fresh
              /\ ev'[1].arg = Names(offered) \o <<"Exit">>
              /\ ev'[1].out \in {offered[i].name : i \in 1..Len(offered)} \cup {"Exit"}
      ]_vars

\* a walk on a newly created issue, which starts Open, applied "Resolve":
\* a transition that only a later iteration can offer
C2_Witness ==
    /\ pc = "walk_fetch"
    /\ ret = "ci_offer"
    /\ ev = << Ev("transition_issue", key, "22", "ok") >>

\* C3: when transition_issue raises, the walk does not end: the loop goes
\* back to the fetch, and when that fetch returns transitions the status is
\* shown and the user is prompted again.
C3_FailedApplyContinues ==
    [][ /\ (pc = "walk_apply" /\ ev'[1].out # "ok") =>
              (pc' = "walk_fetch" /\ key' = key /\ ret' = ret /\ failed')
        /\ (failed /\ pc = "walk_fetch" /\ pc' # pc) =>
              /\ ev'[1].op = "transitions"
              /\ (ev'[1].out = "ok" /\ offered' # << >>) => pc' = "walk_status"
        /\ (failed /\ pc = "walk_status" /\ pc' # pc) => pc' = "walk_prompt"
      ]_vars

\* the prompt is shown again after a failed transition_issue
C3_Witness ==
    /\ pc = "walk_prompt"
    /\ failed
    /\ ~applied

\* C4: a failure while fetching the issue's status or its transitions ends
\* the walk for that invocation only: control returns to the walk's caller
\* and the process keeps running.
C4_FetchFailureEndsWalkOnly ==
    [][ (pc \in {"walk_fetch", "walk_status"} /\ ev'[1].out # "ok")
        => (pc' = ret /\ pc' # "crashed") ]_vars

\* C5: no failure of a single menu action ends the process.
C5_NoActionEndsProcess == pc # "crashed"

-----------------------------------------------------------------------------
(* Properties of prompt_key. *)

\* a bare number: a non-empty text of digit characters only
BareNumber(s) == s # << >> /\ {s[i] : i \in 1..Len(s)} \subseteq DigitChars

\* C6: for a bare number prompt_key returns the project key, a hyphen and
\* the number ("101" with project "SPF" gives "SPF-101"); every other text,
\* an already qualified key included, is returned unchanged.
C6_KeyNormalized ==
    pk_key # << >> =>
      /\ BareNumber(pk_text) =>
            /\ Len(pk_key) = Len(pk_project) + 1 + Len(pk_text)
            /\ SubSeq(pk_key, 1, Len(pk_project)) = pk_project
            /\ pk_key[Len(pk_project) + 1] = "-"
            /\ SubSeq(pk_key, Len(pk_project) + 2, Len(pk_key)) = pk_text
      /\ ~BareNumber(pk_text) => pk_key = pk_text
      /\ (pk_project = <<"S", "P", "F">> /\ pk_text = <<"1", "0", "1">>)
            => pk_key = <<"S", "P", "F", "-", "1", "0", "1">>

\* "101" was entered with project "SPF"
C6_Witness ==
    /\ pk_project = <<"S", "P", "F">>
    /\ pk_text = <<"1", "0", "1">>
    /\ pk_key = <<"S", "P", "F", "-", "1", "0", "1">>
    /\ memory = pk_key

\* C17: over the prompts of a session the default that prompt_key offers is
\* the key the call before returned, and no default before the first call.
C17_DefaultIsLastKey == [][pk_default' = pk_key]_vars

\* "1" was entered, and the next call offered "SPF-1" and got "S1"
C17_Witness ==
    /\ pk_project = <<"S", "P", "F">>
    /\ pk_default = <<"S", "P", "F", "-", "1">>
    /\ pk_text = <<"S", "1">>
    /\ memory = <<"S", "1">>

-----------------------------------------------------------------------------
(* Properties of format_working_time. *)

\* the text of the components that are not zero, largest unit first, and
\* "0m" when all are zero
Rendered(w, d, h, m) ==
    LET unit == <<"w", "d", "h", "m">>
        n == <<w, d, h, m>>
        shown == SelectSeq(<<1, 2, 3, 4>>, LAMBDA i : n[i] > 0)
        text == [k \in 1..Len(shown) |-> Decimal(n[shown[k]]) \o << unit[shown[k]] >>]
    IN  IF shown = << >> THEN <<"0", "m">> ELSE Join(text)

\* C7: format_working_time gives "0m" for None, zero and negative
\* durations; for s > 0 seconds it gives the non-zero components of the one
\* decomposition s = 144000 w + 28800 d + 3600 h + 60 m + leftover with
\* d < 5, h < 8, m < 60 and leftover < 60, which is "0m" below a minute;
\* 28800 gives "1d", 144000 gives "1w", 90 gives "1m".
C7_BusinessTime ==
    formatted # << >> =>
      /\ (seconds = << >> \/ seconds[1] <= 0) => formatted = <<"0", "m">>
      /\ (seconds # << >> /\ seconds[1] > 0) =>
            \E w \in 0..(seconds[1] \div 144000), d \in 0..4, h \in 0..7,
               m \in 0..59 :
               LET whole == 144000 * w + 28800 * d + 3600 * h + 60 * m
               IN  /\ whole <= seconds[1]
                   /\ seconds[1] < whole + 60
                   /\ formatted = Rendered(w, d, h, m)
      /\ seconds = <<28800>> => formatted = <<"1", "d">>
      /\ seconds = <<144000>> => formatted = <<"1", "w">>
      /\ seconds = <<90>> => formatted = <<"1", "m">>
      /\ (seconds # << >> /\ seconds[1] > 0 /\ seconds[1] < 60)
            => formatted = <<"0", "m">>

\* a duration with all four components: 1w 1d 1h 1m and 30 seconds over
C7_Witness ==
    /\ seconds = <<176490>>
    /\ formatted = <<"1", "w", " ", "1", "d", " ", "1", "h", " ", "1", "m">>

-----------------------------------------------------------------------------
(* Properties of prompt_labels. *)

Elements(list) == {list[i] : i \in 1..Len(list)}

\* a category with nothing configured: no text, or blanks only
ConfiguredEmpty(conf) == \A i \in 1..Len(conf) : conf[i] = " "

\* C8: prompt_labels returns what the user marked under origin, then under
\* type, then under project: every marked label is in the result and
\* nothing else is; a category configured as empty is not prompted and
\* contributes no label.
C8_LabelUnion ==
    lab_done =>
      /\ labels.labels = marked.origin \o marked.type \o marked.project
      /\ Elements(labels.labels) =
            Elements(marked.origin) \cup Elements(marked.type)
            \cup Elements(marked.project)
      /\ \A c \in {"origin", "type", "project"} :
            ConfiguredEmpty(labels_conf[c]) =>
               /\ c \notin Elements(labels.prompts)
               /\ marked[c] = << >>
      /\ (\A c \in {"origin", "type", "project"} : ConfiguredEmpty(labels_conf[c]))
            => labels.labels = << >>

\* two origin labels and a project label were marked, the type category
\* being configured as empty
C8_Witness ==
    /\ lab_done
    /\ labels_conf = [origin |-> <<"o", ",", "o">>, type |-> << >>,
                      project |-> <<"p">>]
    /\ labels.prompts = <<"origin", "project">>
    /\ labels.labels = << <<"o">>, <<"o">>, <<"p">> >>

-----------------------------------------------------------------------------
(* Properties of the create_issue branch. *)

\* C12: in cloud mode no create_issue call is sent for an assignee the
\* directory lookup did not find (the account is None).
C12_FailedLookupSendsNoCreate ==
    \A i \in 1..Len(ev) :
      (secrets.jira_type = "cloud" /\ ev[i].op = "create_issue") =>
        ev[i].arg # "None"

\* the events of the last step hold one of `op` about `arg`
Has(op, arg) == \E i \in 1..Len(ev) : ev[i].op = op /\ ev[i].arg = arg

Sent(site) == { i \in 1..Len(creates) : creates[i].site = site }

\* C13: one run of the create_issue branch sends at most one create_issue
\* call for the issue and at most one for the sub-task, and no call follows
\* a failed one.
C13_CreateWithoutRetry ==
    /\ Cardinality(Sent("ci_create")) <= 1
    /\ Cardinality(Sent("st_create")) <= 1
    /\ Len(creates) <= 2
    /\ \A i \in 1..Len(creates) : creates[i].out # "ok" => i = Len(creates)

\* the issue was created, then the call for the sub-task failed and the
\* menu is shown again
C13_Witness ==
    /\ pc = "menu"
    /\ Len(creates) = 2
    /\ creates[1].site = "ci_create" /\ creates[1].out = "ok"
    /\ creates[2].site = "st_create" /\ creates[2].out = "error"

\* C14: the walk on the new issue and then the sub-task offer come only
\* after a successful creation; the offer is made only for an issue that is
\* no sub-task; the sub-task names the new issue as parent and is walked
\* itself; after a failed creation none of these steps happen.
C14_WalkThenOffer ==
    /\ (pc \in WalkPcs /\ ret = "ci_offer") =>
         /\ Len(creates) = 1 /\ creates[1].out = "ok"
         /\ key = creates[1].created
    /\ pc = "ci_offer" =>
         /\ Len(creates) = 1 /\ creates[1].out = "ok"
         /\ key = creates[1].created /\ fresh
    /\ Has("confirm", "subtask") =>
         /\ Len(creates) = 1 /\ creates[1].out = "ok"
         /\ task_details.issue_type # "Sub-task"
    /\ pc \in {"st_account", "st_create"} =>
         /\ Len(creates) = 1 /\ creates[1].out = "ok"
         /\ task_details.issue_type # "Sub-task"
    /\ Len(creates) = 2 =>
         /\ creates[2].issue_type = "Sub-task"
         /\ creates[2].parent = creates[1].created
         /\ creates[1].out = "ok"
    /\ (Len(creates) = 2 /\ pc \in WalkPcs) =>
         /\ creates[2].out = "ok" /\ key = creates[2].created /\ ret = "menu"
    /\ (Len(creates) = 2 /\ creates[2].out # "ok") => pc = "menu"
    /\ (Len(creates) >= 1 /\ creates[1].out # "ok") =>
         /\ pc = "menu"
         /\ Len(creates) = 1
         /\ ~Has("confirm", "subtask")

\* the sub-task of the new issue is being walked
C14_Witness ==
    /\ pc = "walk_prompt"
    /\ Len(creates) = 2
    /\ creates[2].parent = creates[1].created
    /\ key = creates[2].created
    /\ key # creates[1].created

\* C15: story points are prompted and sent only in server mode for an issue
\* that is no sub-task, watchers are prompted and sent only in server mode;
\* in cloud mode a create call has neither field.
C15_ModeGatedFields ==
    /\ Has("prompt", "story_points") => secrets.jira_type = "server"
    /\ Has("prompt", "watchers") => secrets.jira_type = "server"
    /\ (pc = "ci_account" /\ creates = << >>) =>
         /\ Has("prompt", "story_points") <=>
              (secrets.jira_type = "server" /\ task_details.issue_type # "Sub-task")
         /\ Has("prompt", "watchers") <=> secrets.jira_type = "server"
    /\ \A i \in 1..Len(creates) :
         /\ "customfield_10002" \in creates[i].fields <=>
              (secrets.jira_type = "server" /\ creates[i].issue_type # "Sub-task")
         /\ "customfield_44300" \in creates[i].fields <=>
              secrets.jira_type = "server"

\* in server mode a story was created with both fields and its sub-task with
\* the watchers only
C15_Witness ==
    /\ secrets.jira_type = "server"
    /\ Len(creates) = 2
    /\ {"customfield_10002", "customfield_44300"} \subseteq creates[1].fields
    /\ "customfield_44300" \in creates[2].fields
    /\ "customfield_10002" \notin creates[2].fields

\* the events of the last step hold one of `op` about `arg` that ended `out`
Did(op, arg, out) ==
    \E i \in 1..Len(ev) : ev[i].op = op /\ ev[i].arg = arg /\ ev[i].out = out

EpicSearches == { i \in 1..Len(ev) : ev[i].op = "search_issues" /\ ev[i].arg = "epics" }

\* C18: the epics are searched at most once in a process: the first call of
\* get_epic_list searches and remembers the result, a result of no epics
\* too, and a later call returns what is remembered and searches nothing.
C18_EpicsFetchedOnce ==
    [][ /\ EpicSearches' # {} =>
             /\ ~epic_memory.set /\ epic_memory'.set
             /\ Cardinality(EpicSearches') = 1
        /\ epic_memory.set => epic_memory' = epic_memory
        /\ (pc = "menu" /\ Did("confirm", "use_list_parent", TRUE)') =>
             /\ ~epic_memory.set => EpicSearches' # {}
             /\ (pc' = "ci_account" /\ epic_memory'.epics # << >>) =>
                  \E i \in 1..Len(epic_memory'.epics) :
                    task_details'.parent = epic_memory'.epics[i]
      ]_vars

\* a later call of get_epic_list returned the remembered result of no
\* epics, and nothing was searched
C18_Witness ==
    /\ pc = "ci_account"
    /\ epic_memory.set /\ epic_memory.none
    /\ Did("confirm", "use_list_parent", TRUE)
    /\ EpicSearches = {}

-----------------------------------------------------------------------------
(* Properties of the comment branch. *)

\* the last step was add_comment_to_issue, and it returned `out`
Commented(out) == ev = << Ev("add_comment", << >>, << >>, out) >>

\* C16: in the comment branch the offer to log work is made, and a worklog
\* added, only after add_comment_to_issue succeeded, and the worklog only
\* when the answer is Yes; after a failed comment the branch is over.
C16_WorklogAfterComment ==
    [][ /\ Commented("error") => pc = "menu"
        /\ Has("select", <<"Yes", "No">>)' => (pc = "comment_offer" /\ Commented("ok"))
        /\ (pc = "comment_offer" /\ Has("add_worklog", "date")') =>
             (Commented("ok") /\ ev'[1].out = "Yes")
        /\ (pc = "comment_offer" /\ ev'[1].out = "No") => Len(ev') = 1
      ]_vars

\* the comment was added, the answer was Yes and the worklog was sent
C16_Witness ==
    /\ pc = "menu"
    /\ Len(ev) = 2
    /\ ev[1] = Ev("select", << >>, <<"Yes", "No">>, "Yes")
    /\ ev[2].op = "add_worklog"

-----------------------------------------------------------------------------
(* Properties of the configuration file. *)

\* C9: once store_secrets has written a configuration, a call of
\* check_for_existing_secrets returns a configuration equal to it in every
\* field, and returns it without running the first-run prompts.
C9_ConfigRoundTrip ==
    (sec_pc = "returned" /\ had_file) =>
      /\ loaded = stored
      /\ loaded.t = "obj"
      /\ ~prompted

\* a configuration whose texts hold a quote, a backslash and a newline was
\* written by one run and returned by the next
C9_Witness ==
    /\ sec_pc = "returned"
    /\ had_file
    /\ loaded = Configuration(<<"QUOTE", "NEWLINE">>, <<"BACKSLASH", "n">>,
                              "cloud", FALSE, TRUE)

-----------------------------------------------------------------------------
(* Properties of the due date. *)

\* the day after a date, by the lengths of the months
NextDay(date) ==
    IF date.day < DaysInMonth(date.year, date.month)
    THEN [date EXCEPT !.day = date.day + 1]
    ELSE IF date.month < 12
    THEN [year |-> date.year, month |-> date.month + 1, day |-> 1]
    ELSE [year |-> date.year + 1, month |-> 1, day |-> 1]

RECURSIVE DaysAfter(_, _)
DaysAfter(date, n) == IF n = 0 THEN date ELSE DaysAfter(NextDay(date), n - 1)

\* the number a text of digits writes
RECURSIVE Number(_)
Number(s) ==
    IF s = << >> THEN 0
    ELSE 10 * Number(SubSeq(s, 1, Len(s) - 1))
         + (CHOOSE d \in 0..9 : Digit(d) = s[Len(s)])

\* the date a YYYY-MM-DD text writes
DateOf(s) ==
    [year |-> Number(SubSeq(s, 1, 4)), month |-> Number(SubSeq(s, 6, 7)),
     day |-> Number(SubSeq(s, 9, 10))]

\* C10: for an empty input prompt_due_date returns the date 30 days after
\* the current UTC date, written YYYY-MM-DD; any other input is returned
\* unchanged.
C10_DueDate ==
    due_done =>
      IF due_input = << >>
      THEN /\ due_date.t = "str"
           /\ Len(due_date.v) = 10
           /\ due_date.v[5] = "-" /\ due_date.v[8] = "-"
           /\ \A i \in {1, 2, 3, 4, 6, 7, 9, 10} :
                \E d \in 0..9 : due_date.v[i] = Digit(d)
           /\ DateOf(due_date.v) = DaysAfter(now_utc.date, 30)
      ELSE due_date = JStr(due_input)

\* late on 30 January 2100 (UTC) the empty input gave 1 March 2100
C10_Witness ==
    /\ due_done
    /\ due_input = << >>
    /\ now_utc = [date |-> [year |-> 2100, month |-> 1, day |-> 30], hour |-> 23]
    /\ due_date = JStr(<<"2", "1", "0", "0", "-", "0", "3", "-", "0", "1">>)

-----------------------------------------------------------------------------
(* Properties of search_for_issues. *)

\* the words of a text, its spaces dropped
Words(text) == SelectSeq(text, LAMBDA c : c # " ")

EndsWith(text, tail) ==
    Len(tail) <= Len(text)
    /\ SubSeq(text, Len(text) - Len(tail) + 1, Len(text)) = tail

\* C11: search_for_issues sends one search, capped at 50 results, whose
\* query is the project scope AND the assignee scope (the named user, else
\* the current user) AND one status predicate: the fixed one of Open, Active
\* or Done, and any other filter text as it was given.
C11_SearchQuery ==
    sq_done =>
      /\ Len(sq_calls) = 1
      /\ sq_calls[1].maxResults = 50
      /\ \E user \in {<<"ann">>, <<"currentUser()">>} :
           /\ user = <<"ann">> <=> sq_in.assignee = JStr(<<"ann">>)
           /\ Words(sq_calls[1].jql) =
                <<"project", "=">> \o sq_in.project
                \o <<"AND", "assignee", "=">> \o user
                \o <<"AND">> \o Words(StatusPredicate(sq_in.user_filter))
      /\ sq_in.user_filter \notin {<<"Open">>, <<"Active">>, <<"Done">>} =>
           EndsWith(sq_calls[1].jql, <<"AND", " ">> \o sq_in.user_filter)
      /\ sq_ret.t = "issues" => sq_ret.v <= 50

\* a search for the Active issues of a named user that matched more issues
\* than the cap
C11_Witness ==
    /\ sq_done
    /\ sq_in.user_filter = <<"Active">>
    /\ sq_in.assignee = JStr(<<"ann">>)
    /\ sq_in.matching = 51
    /\ sq_ret = [t |-> "issues", v |-> 50]
    /\ Len(sq_calls) = 1

-----------------------------------------------------------------------------
(* Properties of update_jira_labels. *)

\* every label of `list` is in `other`
Within(list, other) == \A i \in 1..Len(list) : In(list[i], other)

\* each call keeps the labels of the issue, and sends an update only when a
\* requested label is not yet on the issue
OnlyAdds ==
    \A n \in 1..Len(ul_log) :
      /\ Within(ul_log[n].before, ul_log[n].after)
      /\ ul_log[n].sent # << >> =>
           /\ ul_to_add.t = "list"
           /\ ~Within(ul_to_add.v, ul_log[n].before)
           /\ Within(ul_log[n].before, ul_log[n].sent)

-----------------------------------------------------------------------------
(* Properties of display_time_bar. *)

\* a bar has 20 characters between its brackets
TwentyWide(bar) ==
    /\ Len(bar) = 22
    /\ bar[1] = "[" /\ bar[22] = "]"
    /\ \A i \in 2..21 : bar[i] \notin {"[", "]"}

\* C20: for a record with a positive original estimate both bars have
\* exactly 20 characters between their brackets; when the original estimate
\* is 0 no bar is drawn and nothing is divided.
C20_BarsTwentyWide ==
    (tb_pc = "done" /\ tb_info.t = "info") =>
      IF tb_info.v.originalEstimate > 0
      THEN TwentyWide(tb_out.spent_bar) /\ TwentyWide(tb_out.remaining_bar)
      ELSE tb_out = NoBars

\* the create_issue call of the sub-task, when one was sent
SubtaskSent == { i \in DOMAIN cv_sent : cv_sent[i].site = "sub_create" }

\* C21: the sub-task created right after a parent issue is sent with the
\* values of its own prompt sequence: its summary, description, assignee
\* (the account get_account gives for the assignee chosen in
\* get_subtask_input) and original estimate are those of subtask_details.
C21_SubtaskSendsOwnValues ==
    \A i \in SubtaskSent :
        /\ cv_sent[i].summary = cv_subtask.summary
        /\ cv_sent[i].description = cv_subtask.description
        /\ cv_sent[i].assignee \in { get_account(cv_type, cv_subtask.assignee, found) :
                                       found \in BOOLEAN }
        /\ cv_sent[i].originalEstimate = cv_subtask.estimated_time

====
